---- MODULE Spec2Model ----
(***************************************************************************)
(* URL shortener: shortcode lifecycle engine.                              *)
(*                                                                         *)
(* The model covers both server variants of the repository: the            *)
(* consolidated server (src/server.js) and the modular server              *)
(* (src/frontend-test-submission/server.js mounting the routers of         *)
(* src/backend-test-submission/routes/shorturls.js), the SQLite tables of  *)
(* src/backend-test-submission/db/database.js and the CustomLogger client. *)
(*                                                                         *)
(* A request handler is an async function: it runs without interruption    *)
(* from one completed I/O call (a datastore call or a call to the log      *)
(* sink) to the next `await` of an I/O call.  One action of the model is    *)
(* one such run.  Time is a millisecond clock advanced by Tick.            *)
(***************************************************************************)
EXTENDS Integers, Sequences, FiniteSets, TLC

\* ---------------------------------------------------------------- bounds
MaxReqs == 3          \* requests issued in one behaviour of Spec
MaxClockReqs == 4     \* requests issued in one behaviour of SpecClock
MaxLogReqs == 2       \* requests issued in one behaviour of SpecLog
MaxInFlight == 2      \* requests being handled at the same time
MaxTicks == 2         \* clock advances in one behaviour
MaxFaults == 1        \* datastore calls that fail in one behaviour
NumGenCodes == 2      \* distinct outcomes of the random code generator
MaxValidityReqs == 2  \* requests issued in one behaviour of SpecValidity
MaxReadReqs == 5      \* requests issued in one behaviour of SpecRead
MaxListReqs == 5      \* requests issued in one behaviour of SpecList
RetryCap == 2         \* resends of one log call that are told apart
MaxGenReqs == 4       \* requests issued in one behaviour of SpecGen
ValiditySlack == 1    \* validities tried on each side of a limit
MaxLeadDigit == 2     \* leading digits tried for validities of 10^21 and more

\* ------------------------------------------------------ program constants
MaxAttempts == 10         \* generateUniqueShortcode(maxAttempts = 10)
DefaultValidity == 30     \* const { validity = 30 } = req.body
MinValidity == 1
MaxValidity == 10080
MinCodeLen == 3
MaxCodeLen == 20
GenLength == 6            \* generateShortcode(length = 6)
MsPerMinute == 60000      \* validityMinutes * 60 * 1000
MsPerSecond == 1000       \* CURRENT_TIMESTAMP has second precision

\* -------------------------------------------------------------- alphabet
\* chars of generateShortcode, in the order of the source string
Chars ==
  << "a","b","c","d","e","f","g","h","i","j","k","l","m",
     "n","o","p","q","r","s","t","u","v","w","x","y","z",
     "A","B","C","D","E","F","G","H","I","J","K","L","M",
     "N","O","P","Q","R","S","T","U","V","W","X","Y","Z",
     "0","1","2","3","4","5","6","7","8","9" >>

Alnum == { Chars[k] : k \in DOMAIN Chars }

\* A shortcode is a sequence of one-character strings; the empty sequence
\* stands for an absent (undefined or "") shortcode, which is falsy in JS.
NoCode == << >>
CodeAbc == << "a", "b", "c" >>
CodeApi == << "a", "p", "i" >>
CodeHealth == << "h", "e", "a", "l", "t", "h" >>
CodeXyz == << "x", "y", "z" >>
CodeAb == << "a", "b" >>
CodeDash == << "a", "-", "c" >>
CodeShorturls == << "s","h","o","r","t","u","r","l","s" >>
CodeStatic == << "s","t","a","t","i","c" >>
CodeFavicon == << "f","a","v","i","c","o","n",".","i","c","o" >>

\* The format check with the lower length bound off by one.
isValidShortcodeOffByOne(shortcode) ==
  /\ Len(shortcode) > MinCodeLen
  /\ Len(shortcode) <= MaxCodeLen
  /\ \A k \in DOMAIN shortcode : shortcode[k] \in Alnum

\* /^[a-zA-Z0-9]{3,20}$/.test(shortcode)
isValidShortcode(shortcode) ==
  /\ Len(shortcode) >= MinCodeLen
  /\ Len(shortcode) <= MaxCodeLen
  /\ \A k \in DOMAIN shortcode : shortcode[k] \in Alnum

\* A generator that yields one character less than asked for.
generateShortcodeShort(length) ==
  { [k \in 1..(length - 1) |-> Chars[c]] : c \in 1..NumGenCodes }

\* generateShortcode(): `length` random characters of Chars.  The random
\* source is sampled at NumGenCodes outcomes (a repeated character each).
generateShortcode(length) ==
  { [k \in 1..length |-> Chars[c]] : c \in 1..NumGenCodes }

\* ------------------------------------------------------------------ urls
\* A url is split the way validator.isURL reads it: protocol and rest.
UrlMissing == [protocol |-> "", host |-> ""]
UrlBad == [protocol |-> "", host |-> "not-a-url"]
UrlA == [protocol |-> "https", host |-> "a.com"]
UrlB == [protocol |-> "http", host |-> "b.com"]

\* !url
urlAbsent(url) == url.protocol = "" /\ url.host = ""

\* validator.isURL(url, {protocols: ['http','https'], require_protocol: true})
isValidURL(url) ==
  /\ url.protocol \in {"http", "https"}
  /\ url.host # ""

\* -------------------------------------------------------------- validity
\* The raw `validity` of the request body: absent, an integer, or a value
\* parseInt cannot read.
ValAbsent == [kind |-> "absent", n |-> 0]
ValNaN == [kind |-> "nan", n |-> 0]
ValInt(n) == [kind |-> "int", n |-> n]
\* An integer of 10^21 or more whose decimal expansion starts with digit d
\* (the JSON number d e21).  parseInt converts its argument to a string first,
\* and String() writes such a number in exponent form, "de+21".
ValBig(d) == [kind |-> "big", n |-> d]

\* parseInt(validity) after the destructuring default
parseValidity(validity) ==
  CASE validity.kind = "absent" -> [nan |-> FALSE, n |-> DefaultValidity]
    [] validity.kind = "nan" -> [nan |-> TRUE, n |-> 0]
    [] validity.kind = "big" -> [nan |-> FALSE, n |-> validity.n]
    [] OTHER -> [nan |-> FALSE, n |-> validity.n]

\* validateValidityPeriod(validity): "ok" or the error it reports
validateValidityPeriod(validity) ==
  LET p == parseValidity(validity) IN
  IF p.nan THEN "NotANumber"
  ELSE IF p.n < MinValidity THEN "TooShort"
  ELSE IF p.n > MaxValidity THEN "TooLong"
  ELSE "ok"

\* calculateExpiryDate(validityMinutes) at clock value t
calculateExpiryDate(t, validityMinutes) == t + validityMinutes * MsPerMinute

\* new Date() > new Date(expiresAt), at clock value t
isExpired(t, expiresAt) == t > expiresAt

\* CURRENT_TIMESTAMP of SQLite: the clock truncated to whole seconds
CurrentTimestamp(t) == (t \div MsPerSecond) * MsPerSecond


\* ------------------------------------------------------------ datastore
\* A row of short_urls (id is the position in the table).
NoRow ==
  [shortcode |-> NoCode, original_url |-> UrlMissing, created_at |-> -1,
   expires_at |-> -1, validity_minutes |-> 0]

\* A table without the UNIQUE constraint on shortcode.
UniqueOkNoConstraint(table, shortcode) == TRUE

\* shortcode TEXT UNIQUE NOT NULL: may a row with this shortcode be added?
UniqueOk(table, shortcode) ==
  \A k \in DOMAIN table : table[k].shortcode # shortcode

\* SELECT ... FROM short_urls WHERE shortcode = ?  (db.get: first row or none)
SelectShortUrl(table, shortcode) ==
  IF \E k \in DOMAIN table : table[k].shortcode = shortcode
  THEN table[CHOOSE k \in DOMAIN table :
               /\ table[k].shortcode = shortcode
               /\ \A j \in DOMAIN table : table[j].shortcode = shortcode => k <= j]
  ELSE NoRow

\* positions of the clicks of one shortcode
ClickIds(table, shortcode) ==
  { k \in DOMAIN table : table[k].shortcode = shortcode }

\* A query that returns the most recent click only.
SelectClicksLatestOnly(table, shortcode) ==
  LET ids == { k \in DOMAIN table : table[k].shortcode = shortcode }
  IN IF ids = {} THEN { << >> }
     ELSE { << table[CHOOSE k \in ids :
                       \A j \in ids : table[k].clicked_at >= table[j].clicked_at]
                 .clicked_at >> }

\* SELECT clicked_at ... FROM clicks WHERE shortcode = ? ORDER BY clicked_at
\* DESC: every order of the matching rows that is descending in clicked_at
\* (SQL leaves the order of rows with equal keys open).
SelectClicks(table, shortcode) ==
  LET ids == ClickIds(table, shortcode)
      n == Cardinality(ids)
  IN { [k \in 1..n |-> table[f[k]].clicked_at] :
         f \in { g \in [1..n -> ids] :
                   /\ \A a, b \in 1..n : a # b => g[a] # g[b]
                   /\ \A a, b \in 1..n :
                        a < b => table[g[a]].clicked_at >= table[g[b]].clicked_at } }

\* A listing built with an inner join: codes without clicks are left out.
SelectAllUrlsInnerJoin(urls, clickTable) ==
  LET codes == { urls[k].shortcode : k \in DOMAIN urls }
                 \cap { clickTable[k].shortcode : k \in DOMAIN clickTable }
      n == Cardinality(codes)
      entry(c) ==
        [shortcode |-> c,
         created_at |-> SelectShortUrl(urls, c).created_at,
         expires_at |-> SelectShortUrl(urls, c).expires_at,
         total_clicks |-> Cardinality(ClickIds(clickTable, c))]
  IN { [k \in 1..n |-> entry(f[k])] :
         f \in { g \in [1..n -> codes] :
                   /\ \A a, b \in 1..n : a # b => g[a] # g[b]
                   /\ \A a, b \in 1..n :
                        a < b => entry(g[a]).created_at >= entry(g[b]).created_at } }

\* SELECT s.*, COUNT(c.id) AS total_clicks FROM short_urls s LEFT JOIN clicks c
\* ... GROUP BY s.shortcode ORDER BY s.created_at DESC
SelectAllUrls(urls, clickTable) ==
  LET codes == { urls[k].shortcode : k \in DOMAIN urls }
      n == Cardinality(codes)
      entry(c) ==
        [shortcode |-> c,
         created_at |-> SelectShortUrl(urls, c).created_at,
         expires_at |-> SelectShortUrl(urls, c).expires_at,
         total_clicks |-> Cardinality(ClickIds(clickTable, c))]
  IN { [k \in 1..n |-> entry(f[k])] :
         f \in { g \in [1..n -> codes] :
                   /\ \A a, b \in 1..n : a # b => g[a] # g[b]
                   /\ \A a, b \in 1..n :
                        a < b => entry(g[a]).created_at >= entry(g[b]).created_at } }


\* ----------------------------------------------------------------- state
VARIABLES
  variant,          \* "consolidated" (src/server.js) or "modular" (routers)
  now,              \* the clock, in milliseconds
  ticksLeft,        \* clock advances still allowed
  short_urls,       \* table short_urls, a sequence of rows
  clicks,           \* table clicks, a sequence of rows
  faultsLeft,       \* datastore failures still allowed
  regPending,       \* the start-up logger.register() call is outstanding
  isRegistered,     \* CustomLogger.isRegistered
  isAuthenticated,  \* CustomLogger.isAuthenticated
  token,            \* CustomLogger.token is set
  reqs,             \* the requests being handled, one record per slot
  reqsLeft,         \* requests that may still arrive
  served,           \* the 201, 302 and statistics responses sent so far
  server,           \* the server process: "loaded" (no startServer runs),
                    \* "initializing", "listening" or "exited"
  startupLog,       \* the step a log call of startServer awaits, or "none"
  database,         \* the Database singleton and its lifecycle calls
  frontendLogger,   \* the FrontendLogger singleton of the browser
  dashboard         \* the state of the AnalyticsDashboard component

vars ==
  << variant, now, ticksLeft, short_urls, clicks, faultsLeft, regPending,
     isRegistered, isAuthenticated, token, reqs, reqsLeft, served,
     server, startupLog, database, frontendLogger, dashboard >>

\* The variables of the start-up and of the browser, which the request
\* handlers leave alone.
around == << server, startupLog, database, frontendLogger, dashboard >>

Slots == DOMAIN reqs

\* The slot of a request that is not there.
IdleReq ==
  [op |-> "none", url |-> UrlMissing, validity |-> ValAbsent,
   shortcode |-> NoCode,
   pc |-> "idle", next |-> "none", branch |-> "none", inCatch |-> FALSE,
   status |-> 0,
   finalShortcode |-> NoCode, validityMinutes |-> 0, expiresAt |-> -1,
   expiredAt |-> -1,
   attempts |-> 0, shortUrl |-> NoRow,
   totalClicks |-> 0, clickDetails |-> << >>, isExpired |-> FALSE,
   listing |-> << >>,
   \* history of the request, read by the properties only
   decided |-> "none", presentAtIssue |-> FALSE, sawPresent |-> FALSE,
   dueAtCheck |-> FALSE, dbFault |-> FALSE, uniqueRejected |-> FALSE,
   stored |-> FALSE, clickInserted |-> FALSE, clickFailed |-> FALSE,
   logFailed |-> FALSE, collisions |-> 0, inserts |-> 0, retries |-> 0]

\* The HTTP status each branch of a handler answers with.
StatusOf(branch) ==
  CASE branch = "missingUrl" -> 400
    [] branch = "invalidUrl" -> 400
    [] branch = "invalidValidity" -> 400
    [] branch = "invalidFormat" -> 400
    [] branch = "duplicate" -> 409
    [] branch = "exhausted" -> 500
    [] branch = "created" -> 201
    [] branch = "fault" -> 500
    [] branch = "special" -> 404
    [] branch = "notFound" -> 404
    [] branch = "expired" -> 410
    [] branch = "redirected" -> 302
    [] branch = "health" -> 200
    [] branch = "stats" -> 200
    [] branch = "list" -> 200
    [] OTHER -> 0

\* The handler settles on a branch (the response it is about to send).
Decide(r, b) == [r EXCEPT !.branch = b, !.decided = b]

\* res.status(..).json(..) / res.redirect(..)
Respond(r) == [r EXCEPT !.pc = "done", !.status = StatusOf(r.branch)]

\* A log() that lets the failure of the log post escape.
LogPostResultThrows(o) ==
  CASE o = "200" -> "true"
    [] o = "401" -> "reauth"
    [] o = "error" -> "throw"
    [] OTHER -> "false"

\* How CustomLogger.log completes once the sink has answered the log post:
\* "true", "false", "reauth" (401: authenticate and send again) or "throw".
LogPostResult(o) ==
  CASE o = "200" -> "true"
    [] o = "401" -> "reauth"
    [] OTHER -> "false"

RECURSIVE Log(_, _, _, _), Resume(_, _, _), GenLoop(_, _, _)

\* await logger.<level>(...) with continuation k.  An unregistered logger
\* returns false at once and the handler runs on; otherwise the handler
\* waits for the sink (authenticate first when not authenticated).
Log(r, k, reg, auth) ==
  IF ~reg
  THEN Resume([r EXCEPT !.next = k], reg, auth)
  ELSE { [r EXCEPT !.next = k, !.retries = 0,
                   !.pc = IF auth THEN "post" ELSE "auth"] }

\* A loop that gives up one attempt late.
GenLoopOneMore(r, reg, auth) ==
  IF r.attempts + 1 > MaxAttempts + 1
  THEN Log([r EXCEPT !.attempts = @ + 1, !.finalShortcode = NoCode],
           "genNull", reg, auth)
  ELSE { [r EXCEPT !.attempts = @ + 1, !.finalShortcode = c, !.pc = "gen"] :
           c \in generateShortcode(GenLength) }

\* generateUniqueShortcode: one turn of the do-while loop up to its await
GenLoop(r, reg, auth) ==
  IF r.attempts + 1 > MaxAttempts
  THEN Log([r EXCEPT !.attempts = @ + 1, !.finalShortcode = NoCode],
           "genNull", reg, auth)
  ELSE { [r EXCEPT !.attempts = @ + 1, !.finalShortcode = c, !.pc = "gen"] :
           c \in generateShortcode(GenLength) }

\* The handler runs on after a log call has returned.
Resume(r, reg, auth) ==
  CASE r.next = "respond" -> { Respond(r) }
    [] r.next = "uniqFalse" -> Log(Decide(r, "duplicate"), "respond", reg, auth)
    [] r.next = "genFalse" -> GenLoop(r, reg, auth)
    [] r.next = "genNull" -> { Respond(Decide(r, "exhausted")) }
    [] OTHER -> { r }

\* An exception reaches the handler's catch block: it logs and answers 500.
\* An exception thrown inside the catch block is not handled by anyone.
Throw(r, reg, auth) ==
  IF r.inCatch
  THEN { [r EXCEPT !.pc = "unhandled"] }
  ELSE Log([r EXCEPT !.branch = "fault", !.inCatch = TRUE],
           "respond", reg, auth)

\* A datastore call of the handler rejects.
DbThrow(r, reg, auth) == Throw([r EXCEPT !.decided = "fault"], reg, auth)

\* -------------------------------------------------------------- handlers
\* A validation chain that looks at the validity before the url.
CreateStartValidityFirst(r, reg, auth) ==
  IF validateValidityPeriod(r.validity) # "ok"
  THEN Log(Decide(r, "invalidValidity"), "respond", reg, auth)
  ELSE IF urlAbsent(r.url)
  THEN Log(Decide(r, "missingUrl"), "respond", reg, auth)
  ELSE IF ~isValidURL(r.url)
  THEN Log(Decide(r, "invalidUrl"), "respond", reg, auth)
  ELSE
    LET r1 == [r EXCEPT !.validityMinutes = parseValidity(r.validity).n] IN
    IF r.shortcode # NoCode
    THEN IF ~isValidShortcode(r.shortcode)
         THEN Log(Decide(r1, "invalidFormat"), "respond", reg, auth)
         ELSE { [r1 EXCEPT !.finalShortcode = r.shortcode, !.pc = "uniq"] }
    ELSE GenLoop(r1, reg, auth)

\* POST /shorturls up to its first await: the validation chain.
CreateStart(r, reg, auth) ==
  IF urlAbsent(r.url)
  THEN Log(Decide(r, "missingUrl"), "respond", reg, auth)
  ELSE IF ~isValidURL(r.url)
  THEN Log(Decide(r, "invalidUrl"), "respond", reg, auth)
  ELSE IF validateValidityPeriod(r.validity) # "ok"
  THEN Log(Decide(r, "invalidValidity"), "respond", reg, auth)
  ELSE
    LET r1 == [r EXCEPT !.validityMinutes = parseValidity(r.validity).n] IN
    IF r.shortcode # NoCode
    THEN IF ~isValidShortcode(r.shortcode)
         THEN Log(Decide(r1, "invalidFormat"), "respond", reg, auth)
         ELSE { [r1 EXCEPT !.finalShortcode = r.shortcode, !.pc = "uniq"] }
    ELSE GenLoop(r1, reg, auth)

\* The shortcode is unique: compute the expiry at clock value t and start
\* the insert.
CreateInsert(r, t) ==
  [r EXCEPT !.expiresAt = calculateExpiryDate(t, r.validityMinutes),
            !.pc = "insert"]

\* Path segments the consolidated redirect handler refuses to look up.
SpecialRoutes == {CodeApi, CodeShorturls, CodeStatic, CodeFavicon}

\* GET /:shortcode up to its first await.  In the consolidated server
\* app.get('/health') is registered before app.get('/:shortcode'); in the
\* modular server the redirect router is mounted before it.
RedirectStart(r, v) ==
  IF v = "consolidated" /\ r.shortcode = CodeHealth
  THEN Respond(Decide(r, "health"))
  ELSE IF v = "consolidated" /\ r.shortcode \in SpecialRoutes
  THEN Respond(Decide(r, "special"))
  ELSE [r EXCEPT !.pc = "get"]

\* The 201 and 302 responses and the statistics sent, as recorded in
\* `served`.
ServedBy(r) ==
  IF r.pc = "done" /\ r.status = 201
  THEN << [status |-> 201, shortcode |-> r.finalShortcode, url |-> r.url,
           expiry |-> r.expiresAt,
           totalClicks |-> 0, clickDetails |-> << >>] >>
  ELSE IF r.pc = "done" /\ r.status = 302
  THEN << [status |-> 302, shortcode |-> r.shortcode,
           url |-> r.shortUrl.original_url,
           expiry |-> r.shortUrl.expires_at,
           totalClicks |-> 0, clickDetails |-> << >>] >>
  ELSE IF r.pc = "done" /\ r.op = "stats" /\ r.status = 200
  THEN << [status |-> 200, shortcode |-> r.shortcode,
           url |-> r.shortUrl.original_url,
           expiry |-> r.shortUrl.expires_at,
           totalClicks |-> r.totalClicks, clickDetails |-> r.clickDetails] >>
  ELSE << >>

\* Slot i moves on to record nr.
Step(i, nr) ==
  /\ reqs' = [reqs EXCEPT ![i] = nr]
  /\ served' = served \o ServedBy(nr)

\* A sent response is delivered before anything else happens.
NoneDone == \A j \in Slots : reqs[j].pc # "done"

\* ------------------------------------------- the Database singleton
\* Lifecycle calls considered on one Database.
MaxDbCalls == 4

\* Requests considered after a start-up.
MaxStartReqs == 2

\* Database after its constructor: no handle.  `call` is the awaited step of
\* the lifecycle call that is running ("none" when no call runs), `then`
\* the outcome the call completes with once its log call has returned, and
\* `calls` lists the outcomes of the calls that have completed.
NewDatabase ==
  [db |-> FALSE, call |-> "none", then |-> "none", calls |-> << >>]

\* Database.getDb: the handle, or the error 'Database not initialized'.
getDb(d) == IF d.db THEN "handle" ELSE "throws"

\* A lifecycle call completes with this outcome.
Completed(d, outcome) ==
  [d EXCEPT !.call = "none", !.then = "none", !.calls = Append(@, outcome)]

\* CustomLogger.log called outside a request handler, up to its first
\* await: an unregistered logger returns at once ("none"), an
\* authenticated one posts the entry, any other authenticates first.
LogStep(reg, auth) ==
  IF ~reg THEN "none" ELSE IF auth THEN "post" ELSE "auth"

\* initialize logs its outcome, awaiting the logger, and then returns
\* (logger.info, "initialized") or throws again (logger.error, "failed").
Logged(d, outcome, reg, auth) ==
  CASE LogStep(reg, auth) = "none" -> Completed(d, outcome)
    [] LogStep(reg, auth) = "auth" ->
         [d EXCEPT !.call = "log:auth", !.then = outcome]
    [] OTHER -> [d EXCEPT !.call = "log:post", !.then = outcome]

\* Database.initialize is called: it awaits open().
initialize(d) == [d EXCEPT !.call = "open"]

\* open() answers: the handle is stored in this.db and the first CREATE
\* TABLE is awaited; a failure is logged and thrown again.
OpenReply(d, ok, reg, auth) ==
  IF ok THEN [d EXCEPT !.db = TRUE, !.call = "short_urls"]
        ELSE Logged(d, "failed", reg, auth)

\* A CREATE TABLE answers: the second follows the first, the success is
\* logged after the second; a failure is logged and thrown again, this.db
\* stays.
ExecReply(d, ok, reg, auth) ==
  IF ~ok THEN Logged(d, "failed", reg, auth)
  ELSE IF d.call = "short_urls" THEN [d EXCEPT !.call = "clicks"]
  ELSE Logged(d, "initialized", reg, auth)

\* The sink answers the authenticate() of initialize's log call: with a
\* token the entry is posted, else log returns false and initialize ends.
LogAuthReply(d, ok) ==
  IF ok THEN [d EXCEPT !.call = "log:post"] ELSE Completed(d, d.then)

\* The sink answers the post of initialize's log call: on 401 the logger
\* authenticates again, else log returns and initialize ends.
LogPostReply(d, o) ==
  IF LogPostResult(o) = "reauth" THEN [d EXCEPT !.call = "log:auth"]
  ELSE Completed(d, d.then)

\* Database.close is called: with a handle it awaits the handle's close().
close(d) == IF d.db THEN [d EXCEPT !.call = "close"] ELSE Completed(d, "closed")

\* The handle's close() answers: this.db is cleared unless it threw.
CloseReply(d, ok) ==
  IF ok THEN Completed([d EXCEPT !.db = FALSE], "closed")
        ELSE Completed(d, "close failed")

\* The Database of a server that has started while the registration of
\* the logger was unanswered.
InitializedDatabase ==
  ExecReply(ExecReply(OpenReply(initialize(NewDatabase), TRUE, FALSE, FALSE),
                      TRUE, FALSE, FALSE),
            TRUE, FALSE, FALSE)

\* A start-up that listens whatever initialize did.
AfterInitializeListens(d) == "listening"

\* startServer goes on after `await database.initialize()`: app.listen when
\* it returned, the catch block that ends in process.exit(1) when it threw.
AfterInitialize(d) ==
  IF d.calls[Len(d.calls)] = "initialized" THEN "listening" ELSE "exited"

\* ------------------------------------------------- the FrontendLogger
\* Log calls of the front end, and requests to the server, considered while
\* both loggers work.
MaxFrontLogs == 2
MaxLoggerReqs == 2

\* FrontendLogger after its constructor, which starts initialize():
\* `init` is the step initialize() awaits, `log` counts the log calls in
\* flight by the step they await, `logsLeft` the log calls still to come.
NewFrontendLogger ==
  [isRegistered |-> FALSE, isAuthenticated |-> FALSE, token |-> FALSE,
   init |-> "register", log |-> [auth |-> 0, post |-> 0, reauth |-> 0],
   logsLeft |-> 0]

\* An authenticate that posts without looking at isRegistered.
authenticateUnguarded(l) == "posts"

\* FrontendLogger.authenticate up to its request: it throws 'Must register
\* before authenticating' unless isRegistered, else it posts.
authenticate(l) == IF ~l.isRegistered THEN "throws" ELSE "posts"

\* FrontendLogger.authenticate after its request: a token sets token and
\* isAuthenticated, anything else clears isAuthenticated.
Authenticated(l, ok) ==
  IF ok THEN [l EXCEPT !.token = TRUE, !.isAuthenticated = TRUE]
        ELSE [l EXCEPT !.isAuthenticated = FALSE]

\* FrontendLogger.log up to its first await, called without being awaited:
\* an authenticated logger posts the entry, any other authenticates first,
\* which throws out of log() when the logger is not registered.
logCall(l) ==
  LET l1 == [l EXCEPT !.logsLeft = @ - 1]
  IN  IF l.isAuthenticated THEN [l1 EXCEPT !.log.post = @ + 1]
      ELSE IF authenticate(l) = "posts" THEN [l1 EXCEPT !.log.auth = @ + 1]
      ELSE l1

\* ---------------------------------------------- the AnalyticsDashboard
\* Requests of other clients, and log calls of the front end, considered
\* while the dashboard is used.
MaxDashReqs == 1
MaxDashLogs == 3

\* useState('') of error.
NoError == ""

\* The message a failed GET sets as error: the message of the server's 500
\* response, or the default of the fetch when no response came.
Message(kind, status) ==
  IF kind = "allUrls"
  THEN IF status = 500
       THEN "An error occurred while retrieving URL statistics"
       ELSE "Failed to load URL statistics"
  ELSE IF status = 500
       THEN "An error occurred while retrieving statistics"
       ELSE "Failed to load URL details"

\* The Analytics tab is not selected: no component.  `mounted` says whether
\* the component is rendered, the next five fields are its useState values,
\* `requests` lists the GETs of the browser that are in flight and `last`
\* is the handler of the component that completed last.
NewDashboard ==
  [mounted |-> FALSE, urls |-> << >>, loading |-> TRUE, error |-> NoError,
   detailsDialog |-> [open |-> FALSE, data |-> << >>],
   detailsLoading |-> FALSE, requests |-> << >>, last |-> "none"]

\* A GET the browser has sent: `live` while the component that sent it is
\* mounted, `at` is "sent", "slot" (the server handles it in `slot`) or
\* "answered" (with `status`, 0 when no response came, and `data`).
Get(kind, shortcode) ==
  [kind |-> kind, shortcode |-> shortcode, live |-> TRUE, at |-> "sent",
   slot |-> 0, status |-> 0, data |-> << >>]

\* The sequence q without its k-th element.
Without(q, k) ==
  [j \in 1..(Len(q) - 1) |-> IF j < k THEN q[j] ELSE q[j + 1]]

\* What the component renders: the spinner while loading, else the error
\* alert with its Retry button when error is set, else the table.
View(d) ==
  IF ~d.mounted THEN "none"
  ELSE IF d.loading THEN "spinner"
  ELSE IF d.error # NoError THEN "alert"
  ELSE "table"

\* ---------------------------------------------------------------- actions
\* Empty tables, the clock half a second past a full second; `logger` says
\* whether the start-up registration of the logger is still to be answered.
InitTables(slots, nreqs, nticks, nfaults, logger) ==
  /\ variant \in {"consolidated", "modular"}
  /\ now = MsPerSecond \div 2
  /\ ticksLeft = nticks
  /\ short_urls = << >>
  /\ clicks = << >>
  /\ faultsLeft = nfaults
  /\ regPending = logger
  /\ isRegistered = FALSE
  /\ isAuthenticated = FALSE
  /\ token = FALSE
  /\ reqs = [i \in 1..slots |-> IdleReq]
  /\ reqsLeft = nreqs
  /\ served = << >>

\* The state after start-up: the tables exist and the server listens; the
\* browser has not loaded the front end.
InitWith(slots, nreqs, nticks, nfaults, logger) ==
  /\ InitTables(slots, nreqs, nticks, nfaults, logger)
  /\ server = "listening"
  /\ startupLog = "none"
  /\ database = InitializedDatabase
  /\ frontendLogger = NewFrontendLogger
  /\ dashboard = NewDashboard

\* Time passes: the clock advances by one minute.
Tick ==
  /\ NoneDone
  /\ ticksLeft > 0
  /\ now' = now + MsPerMinute
  /\ ticksLeft' = ticksLeft - 1
  /\ UNCHANGED << around, variant, short_urls, clicks, faultsLeft, regPending,
                  isRegistered, isAuthenticated, token, reqs, reqsLeft, served >>

\* CustomLogger.register(): the sink answers the start-up registration.
\* After process.exit(1) nothing is left to receive the answer.
RegisterReply(ok) ==
  /\ server # "exited"
  /\ NoneDone
  /\ regPending
  /\ regPending' = FALSE
  /\ isRegistered' = ok
  /\ UNCHANGED << around, variant, now, ticksLeft, short_urls, clicks, faultsLeft,
                  isAuthenticated, token, reqs, reqsLeft, served >>

\* A request may arrive in the lowest free slot.
CanIssue(i) ==
  /\ server = "listening"
  /\ NoneDone
  /\ reqsLeft > 0
  /\ reqs[i].pc = "idle"
  /\ \A j \in Slots : j < i => reqs[j].pc # "idle"

Arrive(op, url, validity, shortcode) ==
  [IdleReq EXCEPT !.op = op, !.url = url, !.validity = validity,
                  !.shortcode = shortcode,
                  !.presentAtIssue = ~UniqueOk(short_urls, shortcode)]

\* POST /shorturls {url, validity, shortcode}
IssueCreate(i, url, validity, shortcode) ==
  /\ CanIssue(i)
  /\ reqsLeft' = reqsLeft - 1
  /\ \E nr \in CreateStart(Arrive("create", url, validity, shortcode),
                           isRegistered, isAuthenticated) : Step(i, nr)
  /\ UNCHANGED << around, variant, now, ticksLeft, short_urls, clicks, faultsLeft,
                  regPending, isRegistered, isAuthenticated, token >>

\* GET /<shortcode>
IssueRedirect(i, shortcode) ==
  /\ CanIssue(i)
  /\ reqsLeft' = reqsLeft - 1
  /\ Step(i, RedirectStart(Arrive("redirect", UrlMissing, ValAbsent, shortcode),
                           variant))
  /\ UNCHANGED << around, variant, now, ticksLeft, short_urls, clicks, faultsLeft,
                  regPending, isRegistered, isAuthenticated, token >>

\* GET /shorturls/<shortcode>
IssueStats(i, shortcode) ==
  /\ CanIssue(i)
  /\ reqsLeft' = reqsLeft - 1
  /\ Step(i, [Arrive("stats", UrlMissing, ValAbsent, shortcode)
                EXCEPT !.pc = "get"])
  /\ UNCHANGED << around, variant, now, ticksLeft, short_urls, clicks, faultsLeft,
                  regPending, isRegistered, isAuthenticated, token >>

\* GET /api/all-urls
IssueList(i) ==
  /\ CanIssue(i)
  /\ reqsLeft' = reqsLeft - 1
  /\ Step(i, [Arrive("list", UrlMissing, ValAbsent, NoCode)
                EXCEPT !.pc = "list"])
  /\ UNCHANGED << around, variant, now, ticksLeft, short_urls, clicks, faultsLeft,
                  regPending, isRegistered, isAuthenticated, token >>

\* A datastore call answers (ok) or fails (~ok, while failures are allowed).
DbAnswer(ok) ==
  /\ NoneDone
  /\ ok \/ faultsLeft > 0
  /\ faultsLeft' = IF ok THEN faultsLeft ELSE faultsLeft - 1

\* isShortcodeUnique(shortcode) for a custom code: db.get answers.
DbUniqReply(i, ok) ==
  LET r == reqs[i]
      existing == SelectShortUrl(short_urls, r.finalShortcode) # NoRow
      r1 == [r EXCEPT !.sawPresent = @ \/ existing, !.dbFault = @ \/ ~ok]
  IN /\ r.pc = "uniq"
     /\ DbAnswer(ok)
     /\ \E nr \in (IF ~ok
                   THEN Log(r1, "uniqFalse", isRegistered, isAuthenticated)
                   ELSE IF existing
                   THEN Resume([r1 EXCEPT !.next = "uniqFalse"],
                               isRegistered, isAuthenticated)
                   ELSE { CreateInsert(r1, now) }) : Step(i, nr)
     /\ UNCHANGED << around, variant, now, ticksLeft, short_urls, clicks, regPending,
                     isRegistered, isAuthenticated, token, reqsLeft >>

\* isShortcodeUnique(candidate) inside generateUniqueShortcode: db.get answers.
DbGenReply(i, ok) ==
  LET r == reqs[i]
      existing == SelectShortUrl(short_urls, r.finalShortcode) # NoRow
      r1 == [r EXCEPT !.sawPresent = existing, !.dbFault = @ \/ ~ok,
                      !.collisions = IF ok /\ existing THEN @ + 1 ELSE @]
  IN /\ r.pc = "gen"
     /\ DbAnswer(ok)
     /\ \E nr \in (IF ~ok
                   THEN Log(r1, "genFalse", isRegistered, isAuthenticated)
                   ELSE IF existing
                   THEN GenLoop(r1, isRegistered, isAuthenticated)
                   ELSE { CreateInsert(r1, now) }) : Step(i, nr)
     /\ UNCHANGED << around, variant, now, ticksLeft, short_urls, clicks, regPending,
                     isRegistered, isAuthenticated, token, reqsLeft >>

\* A create that looks for the shortcode again once its row is stored, finds
\* it and reports a duplicate.
AfterInsertChecksAgain(r, accepted, reg, auth) ==
  IF accepted
  THEN Log(Decide(r, "duplicate"), "respond", reg, auth)
  ELSE DbThrow(r, reg, auth)

\* A create that generates another code when the insert of a generated code
\* is rejected.
AfterInsertRetries(r, accepted, reg, auth) ==
  IF accepted
  THEN Log(Decide(r, "created"), "respond", reg, auth)
  ELSE IF r.shortcode = NoCode
  THEN GenLoop(r, reg, auth)
  ELSE DbThrow(r, reg, auth)

\* POST /shorturls after db.run of the insert: build the response data, log
\* and answer 201; a rejected insert goes to the catch block.
AfterInsert(r, accepted, reg, auth) ==
  IF accepted
  THEN Log(Decide(r, "created"), "respond", reg, auth)
  ELSE DbThrow(r, reg, auth)

\* INSERT INTO short_urls (shortcode, original_url, expires_at,
\* validity_minutes): db.run answers; created_at is stamped by the datastore.
DbInsertReply(i, ok) ==
  LET r == reqs[i]
      accepted == ok /\ UniqueOk(short_urls, r.finalShortcode)
      row == [shortcode |-> r.finalShortcode, original_url |-> r.url,
              created_at |-> CurrentTimestamp(now),
              expires_at |-> r.expiresAt,
              validity_minutes |-> r.validityMinutes]
      r1 == [r EXCEPT !.sawPresent = @ \/ ~UniqueOk(short_urls, r.finalShortcode),
                      !.uniqueRejected = ok /\ ~accepted,
                      !.dbFault = @ \/ ~ok,
                      !.stored = accepted,
                      !.inserts = @ + 1]
  IN /\ r.pc = "insert"
     /\ DbAnswer(ok)
     /\ short_urls' = IF accepted THEN Append(short_urls, row) ELSE short_urls
     /\ \E nr \in AfterInsert(r1, accepted, isRegistered, isAuthenticated) :
          Step(i, nr)
     /\ UNCHANGED << around, variant, now, ticksLeft, clicks, regPending,
                     isRegistered, isAuthenticated, token, reqsLeft >>

\* An expiry recomputed from created_at and validity_minutes.
ExpiredAtRecomputed(shortUrl) ==
  shortUrl.created_at + shortUrl.validity_minutes * MsPerMinute

\* expiredAt of the 410 body: shortUrl.expires_at
ExpiredAt(shortUrl) == shortUrl.expires_at

\* SELECT * FROM short_urls WHERE shortcode = ? of the redirect and of the
\* statistics handler: db.get answers.
DbGetReply(i, ok) ==
  LET r == reqs[i]
      row == SelectShortUrl(short_urls, r.shortcode)
      r1 == [r EXCEPT !.shortUrl = IF ok THEN row ELSE NoRow,
                      !.dueAtCheck = ok /\ row # NoRow /\ now >= row.expires_at,
                      !.dbFault = @ \/ ~ok]
  IN /\ r.pc = "get"
     /\ DbAnswer(ok)
     /\ \E nr \in (IF ~ok
                   THEN DbThrow(r1, isRegistered, isAuthenticated)
                   ELSE IF row = NoRow
                   THEN Log(Decide(r1, "notFound"), "respond",
                            isRegistered, isAuthenticated)
                   ELSE IF r.op = "stats"
                   THEN { [r1 EXCEPT !.pc = "clicks"] }
                   ELSE IF isExpired(now, row.expires_at)
                   THEN Log(Decide([r1 EXCEPT !.expiredAt = ExpiredAt(row)],
                                   "expired"), "respond",
                            isRegistered, isAuthenticated)
                   ELSE { [r1 EXCEPT !.pc = "clickins"] }) : Step(i, nr)
     /\ UNCHANGED << around, variant, now, ticksLeft, short_urls, clicks, regPending,
                     isRegistered, isAuthenticated, token, reqsLeft >>

\* A click insert that books every click on one and the same shortcode.
RecordClickOnAbc(table, shortcode, t) ==
  Append(table, [shortcode |-> CodeAbc, clicked_at |-> CurrentTimestamp(t)])

\* A click insert that is lost.
RecordClickLost(table, shortcode, t) == table

\* INSERT INTO clicks (shortcode, ...) VALUES (?, ...) at clock value t;
\* clicked_at is stamped by the datastore.
RecordClick(table, shortcode, t) ==
  Append(table, [shortcode |-> shortcode, clicked_at |-> CurrentTimestamp(t)])

\* The click insert of the redirect handler: db.run answers.
DbClickReply(i, ok) ==
  LET r == reqs[i]
      r1 == [r EXCEPT !.clickInserted = ok, !.clickFailed = ~ok,
                      !.dbFault = @ \/ ~ok]
  IN /\ r.pc = "clickins"
     /\ DbAnswer(ok)
     /\ clicks' = IF ok THEN RecordClick(clicks, r.shortcode, now) ELSE clicks
     /\ \E nr \in (IF ok
                   THEN Log(Decide(r1, "redirected"), "respond",
                            isRegistered, isAuthenticated)
                   ELSE DbThrow(r1, isRegistered, isAuthenticated)) :
          Step(i, nr)
     /\ UNCHANGED << around, variant, now, ticksLeft, short_urls, regPending,
                     isRegistered, isAuthenticated, token, reqsLeft >>

\* Statistics that never report a code as expired.
StatisticsNeverExpired(r, cs, t) ==
  [r EXCEPT !.totalClicks = Len(cs), !.isExpired = FALSE, !.clickDetails = cs]

\* The `statistics` object of the statistics handler, built at clock value t
\* from the row in r.shortUrl and the click rows cs.
Statistics(r, cs, t) ==
  [r EXCEPT !.totalClicks = Len(cs),
            !.isExpired = isExpired(t, r.shortUrl.expires_at),
            !.clickDetails = cs]

\* SELECT ... FROM clicks WHERE shortcode = ? ORDER BY clicked_at DESC of the
\* statistics handler: db.all answers.
DbClicksReply(i, ok) ==
  LET r == reqs[i]
      r1 == [r EXCEPT !.dbFault = @ \/ ~ok]
  IN /\ r.pc = "clicks"
     /\ DbAnswer(ok)
     /\ \E nr \in (IF ok
                   THEN UNION { Log(Decide(Statistics(r1, cs, now), "stats"),
                                    "respond", isRegistered, isAuthenticated) :
                                  cs \in SelectClicks(clicks, r.shortcode) }
                   ELSE DbThrow(r1, isRegistered, isAuthenticated)) :
          Step(i, nr)
     /\ UNCHANGED << around, variant, now, ticksLeft, short_urls, clicks, regPending,
                     isRegistered, isAuthenticated, token, reqsLeft >>

\* urlsWithStatus: each row of the listing with isExpired computed at clock
\* value t.
WithStatus(ls, t) ==
  [k \in DOMAIN ls |->
     [shortcode |-> ls[k].shortcode, created_at |-> ls[k].created_at,
      expires_at |-> ls[k].expires_at, total_clicks |-> ls[k].total_clicks,
      isExpired |-> isExpired(t, ls[k].expires_at)]]

\* The grouped SELECT of GET /api/all-urls: db.all answers.
DbListReply(i, ok) ==
  LET r == reqs[i]
      r1 == [r EXCEPT !.dbFault = @ \/ ~ok]
  IN /\ r.pc = "list"
     /\ DbAnswer(ok)
     /\ \E nr \in (IF ok
                   THEN UNION { Log(Decide([r1 EXCEPT !.listing = WithStatus(ls, now)],
                                           "list"),
                                    "respond", isRegistered, isAuthenticated) :
                                  ls \in SelectAllUrls(short_urls, clicks) }
                   ELSE DbThrow(r1, isRegistered, isAuthenticated)) :
          Step(i, nr)
     /\ UNCHANGED << around, variant, now, ticksLeft, short_urls, clicks, regPending,
                     isRegistered, isAuthenticated, token, reqsLeft >>

\* CustomLogger.authenticate() called from log(): the sink answers.
SinkAuthReply(i, ok) ==
  LET r == reqs[i] IN
  /\ NoneDone
  /\ r.pc = "auth"
  /\ isAuthenticated' = ok
  /\ token' = (token \/ ok)
  /\ \E nr \in (IF ok
                THEN { [r EXCEPT !.pc = "post"] }
                ELSE Resume([r EXCEPT !.logFailed = TRUE, !.retries = 0],
                            isRegistered, ok)) :
       Step(i, nr)
  /\ UNCHANGED << around, variant, now, ticksLeft, short_urls, clicks, faultsLeft,
                  regPending, isRegistered, reqsLeft >>

\* Replies of the sink to the log post: 200, another 2xx, 401, or an error
\* (no connection, or any other status).
PostReplies == {"200", "204", "401", "error"}

\* CustomLogger.log(): the sink answers the log post.
SinkPostReply(i, o) ==
  LET r == reqs[i]
      res == LogPostResult(o)
      auth == IF res = "reauth" THEN FALSE ELSE isAuthenticated
      r1 == [r EXCEPT !.logFailed = @ \/ (o # "200"),
                      !.retries = IF res # "reauth" THEN 0
                                  ELSE IF @ < RetryCap THEN @ + 1 ELSE @]
  IN /\ NoneDone
     /\ r.pc = "post"
     /\ isAuthenticated' = auth
     /\ \E nr \in (CASE res = "reauth" -> { [r1 EXCEPT !.pc = "auth"] }
                     [] res = "throw" -> Throw(r1, isRegistered, auth)
                     [] OTHER -> Resume(r1, isRegistered, auth)) :
          Step(i, nr)
     /\ UNCHANGED << around, variant, now, ticksLeft, short_urls, clicks, faultsLeft,
                     regPending, isRegistered, token, reqsLeft >>

\* The response has been delivered; the slot is free again.
Retire(i) ==
  /\ reqs[i].pc = "done"
  /\ reqs' = [reqs EXCEPT ![i] = IdleReq]
  /\ UNCHANGED << around, variant, now, ticksLeft, short_urls, clicks, faultsLeft,
                  regPending, isRegistered, isAuthenticated, token, reqsLeft,
                  served >>

\* ------------------------------------------------ start-up and Database
\* The variables of the request handlers, which the browser leaves alone.
handlers ==
  << variant, now, ticksLeft, short_urls, clicks, faultsLeft, regPending,
     isRegistered, isAuthenticated, token, reqs, reqsLeft, served >>

\* What neither the Database nor the start-up touches.
tables ==
  << variant, now, ticksLeft, short_urls, clicks, faultsLeft, regPending,
     isRegistered, reqs, reqsLeft, served, frontendLogger, dashboard >>

\* startServer resumes in the step in which the initialize it awaits
\* completes.  After a success it calls app.listen, whose callback logs
\* without being awaited.  After a failure the modular server awaits
\* logger.error in its catch block and then exits; the consolidated server
\* has exited inside initializeDatabase.
StartServerResume ==
  IF server = "initializing" /\ database'.call = "none"
  THEN LET to == AfterInitialize(database')
           step == IF to = "listening" \/ variant = "modular"
                   THEN LogStep(isRegistered, isAuthenticated')
                   ELSE "none"
       IN /\ startupLog' = step
          /\ server' = IF to = "exited" /\ step # "none"
                       THEN "initializing" ELSE to
  ELSE UNCHANGED << server, startupLog >>

\* A client of the Database calls initialize, or close.
CallInitialize ==
  /\ server = "loaded"
  /\ database.call = "none"
  /\ Len(database.calls) < MaxDbCalls
  /\ database' = initialize(database)
  /\ UNCHANGED << tables, isAuthenticated, token, server, startupLog >>

CallClose ==
  /\ server = "loaded"
  /\ database.call = "none"
  /\ Len(database.calls) < MaxDbCalls
  /\ database' = close(database)
  /\ UNCHANGED << tables, isAuthenticated, token, server, startupLog >>

\* sqlite answers the step a lifecycle call awaits.
DbOpenReply(ok) ==
  /\ database.call = "open"
  /\ database' = OpenReply(database, ok, isRegistered, isAuthenticated)
  /\ UNCHANGED << tables, isAuthenticated, token >>
  /\ StartServerResume

DbExecReply(ok) ==
  /\ database.call \in {"short_urls", "clicks"}
  /\ database' = ExecReply(database, ok, isRegistered, isAuthenticated)
  /\ UNCHANGED << tables, isAuthenticated, token >>
  /\ StartServerResume

DbCloseReply(ok) ==
  /\ database.call = "close"
  /\ database' = CloseReply(database, ok)
  /\ UNCHANGED << tables, isAuthenticated, token, server, startupLog >>

\* The sink answers the authenticate() of the log call of initialize.
DbLogAuthReply(ok) ==
  /\ database.call = "log:auth"
  /\ isAuthenticated' = ok
  /\ token' = (token \/ ok)
  /\ database' = LogAuthReply(database, ok)
  /\ UNCHANGED tables
  /\ StartServerResume

\* The sink answers the post of the log call of initialize.
DbLogPostReply(o) ==
  /\ database.call = "log:post"
  /\ isAuthenticated' =
       IF LogPostResult(o) = "reauth" THEN FALSE ELSE isAuthenticated
  /\ database' = LogPostReply(database, o)
  /\ UNCHANGED << tables, token >>
  /\ StartServerResume

\* startServer once a log call of its own has returned: the awaited
\* logger.error of the catch block is followed by process.exit(1), the
\* log of the listen callback by nothing.
AfterStartupLog(srv, step) ==
  IF srv = "initializing" /\ step = "none" THEN "exited" ELSE srv

\* The sink answers the authenticate() of a log call of startServer.
StartupSinkAuthReply(ok) ==
  /\ startupLog = "auth"
  /\ isAuthenticated' = ok
  /\ token' = (token \/ ok)
  /\ startupLog' = IF ok THEN "post" ELSE "none"
  /\ server' = AfterStartupLog(server, startupLog')
  /\ UNCHANGED << tables, database >>

\* The sink answers the post of a log call of startServer.
StartupSinkPostReply(o) ==
  /\ startupLog = "post"
  /\ isAuthenticated' =
       IF LogPostResult(o) = "reauth" THEN FALSE ELSE isAuthenticated
  /\ startupLog' = IF LogPostResult(o) = "reauth" THEN "auth" ELSE "none"
  /\ server' = AfterStartupLog(server, startupLog')
  /\ UNCHANGED << tables, token, database >>

\* ------------------------------------------------------ FrontendLogger
\* initialize(): the sink answers register(); authenticate() follows, and
\* what it throws is caught.
FrontRegisterReply(ok) ==
  /\ frontendLogger.init = "register"
  /\ LET l == [frontendLogger EXCEPT !.isRegistered = @ \/ ok]
     IN  frontendLogger' =
           [l EXCEPT !.init = IF authenticate(l) = "posts"
                               THEN "authenticate" ELSE "done"]
  /\ UNCHANGED << handlers, server, startupLog, database, dashboard >>

\* initialize(): the sink answers authenticate().
FrontInitAuthReply(ok) ==
  /\ frontendLogger.init = "authenticate"
  /\ frontendLogger' =
       [Authenticated(frontendLogger, ok) EXCEPT !.init = "done"]
  /\ UNCHANGED << handlers, server, startupLog, database, dashboard >>

\* A component calls log().
FrontLogCall ==
  /\ frontendLogger.logsLeft > 0
  /\ frontendLogger' = logCall(frontendLogger)
  /\ UNCHANGED << handlers, server, startupLog, database, dashboard >>

\* log(): the sink answers the authenticate() made before the post.
FrontLogAuthReply(ok) ==
  /\ frontendLogger.log.auth > 0
  /\ frontendLogger' =
       [Authenticated(frontendLogger, ok) EXCEPT
          !.log.auth = @ - 1,
          !.log.post = IF ok THEN @ + 1 ELSE @]
  /\ UNCHANGED << handlers, server, startupLog, database, dashboard >>

\* log(): the sink answers the post; on 401 isAuthenticated is cleared and
\* authenticate() is called again.
FrontLogPostReply(o) ==
  /\ frontendLogger.log.post > 0
  /\ frontendLogger' =
       IF o = "401"
       THEN LET l == [frontendLogger EXCEPT !.isAuthenticated = FALSE,
                                            !.log.post = @ - 1]
            IN  IF authenticate(l) = "posts"
                THEN [l EXCEPT !.log.reauth = @ + 1] ELSE l
       ELSE [frontendLogger EXCEPT !.log.post = @ - 1]
  /\ UNCHANGED << handlers, server, startupLog, database, dashboard >>

\* log(): the sink answers the authenticate() made after a 401; on success
\* log() calls itself and posts again.
FrontLogReauthReply(ok) ==
  /\ frontendLogger.log.reauth > 0
  /\ frontendLogger' =
       [Authenticated(frontendLogger, ok) EXCEPT
          !.log.reauth = @ - 1,
          !.log.post = IF ok THEN @ + 1 ELSE @]
  /\ UNCHANGED << handlers, server, startupLog, database, dashboard >>

\* -------------------------------------------------- AnalyticsDashboard
\* What the browser and its requests leave alone in the server.
serverSide ==
  << variant, now, ticksLeft, short_urls, clicks, faultsLeft, regPending,
     isRegistered, isAuthenticated, token, reqsLeft, server, startupLog,
     database >>

\* fetchAllUrls up to its await: setLoading(true) and the GET of
\* /api/all-urls.
fetchAllUrls(d) ==
  [d EXCEPT !.loading = TRUE, !.last = "fetching",
            !.requests = Append(@, Get("allUrls", NoCode))]

\* fetchUrlDetails up to its await: setDetailsLoading(true) and the GET of
\* /shorturls/:shortcode.
fetchUrlDetails(d, shortcode) ==
  [d EXCEPT !.detailsLoading = TRUE, !.last = "fetching details",
            !.requests = Append(@, Get("details", shortcode))]

\* fetchAllUrls after a response with the listing `data`: setUrls, and
\* setLoading(false) in finally.
Loaded(d, data) ==
  [d EXCEPT !.urls = data, !.loading = FALSE, !.last = "loaded"]

\* fetchAllUrls after a failed request: setError with the message of the
\* response or the default one, and setLoading(false) in finally.
LoadFailed(d, status) ==
  [d EXCEPT !.error = Message("allUrls", status),
            !.loading = FALSE, !.last = "load failed"]

\* The Analytics tab is selected: handleTabChange logs, the component is
\* rendered with its initial state and its effect calls fetchAllUrls, twice
\* under React.StrictMode in a development build.
Mount(twice) ==
  /\ ~dashboard.mounted
  /\ frontendLogger.logsLeft > 0
  /\ frontendLogger' = logCall(frontendLogger)
  /\ LET d == fetchAllUrls([dashboard EXCEPT !.mounted = TRUE])
     IN  dashboard' = IF twice THEN fetchAllUrls(d) ELSE d
  /\ UNCHANGED << serverSide, reqs, served >>

\* The other tab is selected: handleTabChange logs and the component is
\* unmounted; its state is gone, the requests it has sent stay in flight.
Unmount ==
  /\ dashboard.mounted
  /\ frontendLogger.logsLeft > 0
  /\ frontendLogger' = logCall(frontendLogger)
  /\ dashboard' =
       [NewDashboard EXCEPT
          !.requests = [k \in DOMAIN dashboard.requests |->
                          [dashboard.requests[k] EXCEPT !.live = FALSE]],
          !.last = "unmounted"]
  /\ UNCHANGED << serverSide, reqs, served >>

\* The Retry button of the error alert calls fetchAllUrls.
Retry ==
  /\ View(dashboard) = "alert"
  /\ frontendLogger.logsLeft > 0
  /\ dashboard' = fetchAllUrls(dashboard)
  /\ UNCHANGED << serverSide, reqs, served, frontendLogger >>

\* The Refresh Data button under the table calls fetchAllUrls.
Refresh ==
  /\ View(dashboard) = "table"
  /\ frontendLogger.logsLeft > 0
  /\ dashboard' = fetchAllUrls(dashboard)
  /\ UNCHANGED << serverSide, reqs, served, frontendLogger >>

\* The details button of row k of the table, disabled while
\* detailsLoading, calls fetchUrlDetails.
OpenDetails(k) ==
  /\ View(dashboard) = "table"
  /\ frontendLogger.logsLeft > 0
  /\ ~dashboard.detailsLoading
  /\ k \in DOMAIN dashboard.urls
  /\ dashboard' = fetchUrlDetails(dashboard, dashboard.urls[k].shortcode)
  /\ UNCHANGED << serverSide, reqs, served, frontendLogger >>

\* The dialog, rendered with the table, is closed.
CloseDetails ==
  /\ View(dashboard) = "table"
  /\ dashboard.detailsDialog.open
  /\ dashboard' = [dashboard EXCEPT
                     !.detailsDialog = [open |-> FALSE, data |-> << >>],
                     !.last = "closed"]
  /\ UNCHANGED << serverSide, reqs, served, frontendLogger >>

\* A GET of the browser reaches the listening server, which starts the
\* handler of /api/all-urls or of /shorturls/:shortcode in slot i.
DashArrive(k, i) ==
  /\ k \in DOMAIN dashboard.requests
  /\ dashboard.requests[k].at = "sent"
  /\ server = "listening"
  /\ NoneDone
  /\ reqs[i].pc = "idle"
  /\ \A j \in Slots : j < i => reqs[j].pc # "idle"
  /\ LET g == dashboard.requests[k]
     IN  IF g.kind = "allUrls"
         THEN Step(i, [Arrive("list", UrlMissing, ValAbsent, NoCode)
                         EXCEPT !.pc = "list"])
         ELSE Step(i, [Arrive("stats", UrlMissing, ValAbsent, g.shortcode)
                         EXCEPT !.pc = "get"])
  /\ dashboard' = [dashboard EXCEPT !.requests[k].at = "slot",
                                    !.requests[k].slot = i]
  /\ UNCHANGED << serverSide, frontendLogger >>

\* The response of the server to a GET of the browser is on its way back,
\* with the listing or the statistics the handler has sent.
DashRespond(k) ==
  /\ k \in DOMAIN dashboard.requests
  /\ dashboard.requests[k].at = "slot"
  /\ LET i == dashboard.requests[k].slot
     IN  /\ reqs[i].pc = "done"
         /\ reqs' = [reqs EXCEPT ![i] = IdleReq]
         /\ dashboard' =
              [dashboard EXCEPT !.requests[k].at = "answered",
                                !.requests[k].slot = 0,
                                !.requests[k].status = reqs[i].status,
                                !.requests[k].data =
                                  IF reqs[i].op = "list"
                                  THEN reqs[i].listing
                                  ELSE [shortcode |-> reqs[i].shortcode,
                                        totalClicks |-> reqs[i].totalClicks,
                                        isExpired |-> reqs[i].isExpired]]
  /\ UNCHANGED << serverSide, served, frontendLogger >>

\* A GET of the browser fails without a response.
NetworkFail(k) ==
  /\ k \in DOMAIN dashboard.requests
  /\ dashboard.requests[k].at = "sent"
  /\ dashboard' = [dashboard EXCEPT !.requests[k].at = "answered"]
  /\ UNCHANGED << serverSide, reqs, served, frontendLogger >>

\* fetchAllUrls resumes after its GET: setUrls or setError, a log call,
\* setLoading(false); the setters of an unmounted component do nothing.
AllUrlsReply(k) ==
  /\ k \in DOMAIN dashboard.requests
  /\ dashboard.requests[k].kind = "allUrls"
  /\ dashboard.requests[k].at = "answered"
  /\ frontendLogger.logsLeft > 0
  /\ frontendLogger' = logCall(frontendLogger)
  /\ LET g == dashboard.requests[k]
         d == [dashboard EXCEPT !.requests = Without(@, k)]
     IN  dashboard' = IF ~g.live THEN d
                      ELSE IF g.status = 200 THEN Loaded(d, g.data)
                      ELSE LoadFailed(d, g.status)
  /\ UNCHANGED << serverSide, reqs, served >>

\* fetchUrlDetails resumes after its GET: the dialog opens on the
\* statistics, or setError; a log call, setDetailsLoading(false).
DetailsReply(k) ==
  /\ k \in DOMAIN dashboard.requests
  /\ dashboard.requests[k].kind = "details"
  /\ dashboard.requests[k].at = "answered"
  /\ frontendLogger.logsLeft > 0
  /\ frontendLogger' = logCall(frontendLogger)
  /\ LET g == dashboard.requests[k]
         d == [dashboard EXCEPT !.requests = Without(@, k)]
     IN  dashboard' =
           IF ~g.live THEN d
           ELSE IF g.status = 200
           THEN [d EXCEPT !.detailsDialog = [open |-> TRUE, data |-> g.data],
                          !.detailsLoading = FALSE, !.last = "details"]
           ELSE [d EXCEPT !.error = Message("details", g.status),
                          !.detailsLoading = FALSE,
                          !.last = "details failed"]
  /\ UNCHANGED << serverSide, reqs, served >>

\* ------------------------------------------------------- specifications
\* Request inputs.
CreateUrls == {UrlMissing, UrlBad, UrlA, UrlB}
CreateValidities == {ValInt(0), ValInt(1)}
CreateCodes == {NoCode, CodeAb, CodeAbc, CodeApi}
PathCodes == {CodeAbc, CodeApi, CodeHealth} \cup generateShortcode(GenLength)

\* Requests arrive.
Issue ==
  \/ \E i \in Slots, url \in CreateUrls, validity \in CreateValidities,
        shortcode \in CreateCodes : IssueCreate(i, url, validity, shortcode)
  \/ \E i \in Slots, shortcode \in PathCodes : IssueRedirect(i, shortcode)
  \/ \E i \in Slots, shortcode \in PathCodes : IssueStats(i, shortcode)
  \/ \E i \in Slots : IssueList(i)

\* The datastore answers a call.
DbReply(ok) ==
  \/ \E i \in Slots : DbUniqReply(i, ok)
  \/ \E i \in Slots : DbGenReply(i, ok)
  \/ \E i \in Slots : DbInsertReply(i, ok)
  \/ \E i \in Slots : DbGetReply(i, ok)
  \/ \E i \in Slots : DbClickReply(i, ok)
  \/ \E i \in Slots : DbClicksReply(i, ok)
  \/ \E i \in Slots : DbListReply(i, ok)

\* Concurrent requests on a working datastore, the logger never registered
\* (the sink was not reachable at start-up), the clock standing still.
Init == InitWith(MaxInFlight, MaxReqs, 0, 0, FALSE)

Next ==
  \/ Issue
  \/ DbReply(TRUE)
  \/ \E i \in Slots : Retire(i)

Spec == Init /\ [][Next]_vars


\* Requests on a datastore whose calls may fail, while time passes.  The
\* creates carry valid inputs and a custom code; a stored and unknown codes
\* are redirected.
ClockCodes == {CodeAbc} \cup generateShortcode(GenLength)

IssueClock ==
  \/ \E i \in Slots : IssueCreate(i, UrlA, ValInt(1), CodeAbc)
  \/ \E i \in Slots, shortcode \in ClockCodes : IssueRedirect(i, shortcode)
  \/ \E i \in Slots : IssueStats(i, CodeAbc)

\* The datastore answers a call of these requests.
DbReplyClock(ok) ==
  \/ \E i \in Slots : DbUniqReply(i, ok)
  \/ \E i \in Slots : DbInsertReply(i, ok)
  \/ \E i \in Slots : DbGetReply(i, ok)
  \/ \E i \in Slots : DbClickReply(i, ok)
  \/ \E i \in Slots : DbClicksReply(i, ok)

InitClock == InitWith(MaxInFlight, MaxClockReqs, MaxTicks, MaxFaults, FALSE)

NextClock ==
  \/ Tick
  \/ IssueClock
  \/ DbReplyClock(TRUE)
  \/ DbReplyClock(FALSE)
  \/ \E i \in Slots : Retire(i)

SpecClock == InitClock /\ [][NextClock]_vars

\* Requests while the logger registers and logs to a sink that may answer
\* anything, on a datastore whose calls may fail; the clock stands still.
IssueLog ==
  \/ \E i \in Slots, url \in {UrlBad, UrlA}, shortcode \in {NoCode, CodeAbc} :
       IssueCreate(i, url, ValInt(1), shortcode)
  \/ \E i \in Slots : IssueRedirect(i, CodeAbc)
  \/ \E i \in Slots : IssueStats(i, CodeAbc)
  \/ \E i \in Slots : IssueList(i)

InitLog == InitWith(MaxInFlight, MaxLogReqs, 0, MaxFaults, TRUE)

NextLog ==
  \/ \E ok \in BOOLEAN : RegisterReply(ok)
  \/ IssueLog
  \/ DbReply(TRUE)
  \/ DbReply(FALSE)
  \/ \E i \in Slots, ok \in BOOLEAN : SinkAuthReply(i, ok)
  \/ \E i \in Slots, o \in PostReplies : SinkPostReply(i, o)
  \/ \E i \in Slots : Retire(i)

SpecLog == InitLog /\ [][NextLog]_vars

\* Creates with validities around the two limits of the validity period,
\* with and without a custom code, on a working datastore.
ValidityInputs ==
  {ValAbsent, ValNaN}
    \cup { ValInt(n) : n \in (MinValidity - ValiditySlack)..(MinValidity + ValiditySlack) }
    \cup { ValInt(n) : n \in (MaxValidity - ValiditySlack)..(MaxValidity + ValiditySlack) }
    \cup { ValBig(d) : d \in 1..MaxLeadDigit }

IssueValidity ==
  \E i \in Slots, validity \in ValidityInputs, shortcode \in {NoCode, CodeAbc} :
    IssueCreate(i, UrlA, validity, shortcode)

InitValidity == InitWith(MaxInFlight, MaxValidityReqs, 0, 0, FALSE)

NextValidity ==
  \/ IssueValidity
  \/ \E i \in Slots : DbUniqReply(i, TRUE)
  \/ \E i \in Slots : DbGenReply(i, TRUE)
  \/ \E i \in Slots : DbInsertReply(i, TRUE)
  \/ \E i \in Slots : Retire(i)

SpecValidity == InitValidity /\ [][NextValidity]_vars

\* Creates without a custom code, and creates whose custom code is one the
\* generator can yield, on a working datastore.
IssueGen ==
  \/ \E i \in Slots : IssueCreate(i, UrlA, ValInt(1), NoCode)
  \/ \E i \in Slots, shortcode \in generateShortcode(GenLength) :
       IssueCreate(i, UrlB, ValInt(1), shortcode)

InitGen == InitWith(MaxInFlight, MaxGenReqs, 0, 0, FALSE)

NextGen ==
  \/ IssueGen
  \/ \E i \in Slots : DbUniqReply(i, TRUE)
  \/ \E i \in Slots : DbGenReply(i, TRUE)
  \/ \E i \in Slots : DbInsertReply(i, TRUE)
  \/ \E i \in Slots : Retire(i)

SpecGen == InitGen /\ [][NextGen]_vars

\* Two shortcodes are created and redirected while statistics and the
\* listing are read, on a working datastore; the clock stands still.
ReadCodes == {CodeAbc, CodeXyz}

IssueRead ==
  \/ \E i \in Slots : IssueCreate(i, UrlA, ValInt(1), CodeAbc)
  \/ \E i \in Slots : IssueCreate(i, UrlB, ValInt(MinValidity + 1), CodeXyz)
  \/ \E i \in Slots, shortcode \in ReadCodes : IssueRedirect(i, shortcode)
  \/ \E i \in Slots : IssueStats(i, CodeAbc)
  \/ \E i \in Slots : IssueList(i)

InitRead == InitWith(MaxInFlight, MaxReadReqs, 0, 0, FALSE)

NextRead ==
  \/ IssueRead
  \/ \E i \in Slots : DbUniqReply(i, TRUE)
  \/ \E i \in Slots : DbInsertReply(i, TRUE)
  \/ \E i \in Slots : DbGetReply(i, TRUE)
  \/ \E i \in Slots : DbClickReply(i, TRUE)
  \/ \E i \in Slots : DbClicksReply(i, TRUE)
  \/ \E i \in Slots : DbListReply(i, TRUE)
  \/ \E i \in Slots : Retire(i)

SpecRead == InitRead /\ [][NextRead]_vars

\* Two shortcodes are created, one of them is redirected, and the listing
\* is read while time passes, on a working datastore.
IssueListing ==
  \/ \E i \in Slots : IssueCreate(i, UrlA, ValInt(1), CodeAbc)
  \/ \E i \in Slots : IssueCreate(i, UrlB, ValInt(MinValidity + 1), CodeXyz)
  \/ \E i \in Slots : IssueRedirect(i, CodeAbc)
  \/ \E i \in Slots : IssueList(i)

InitList == InitWith(MaxInFlight, MaxListReqs, MaxTicks, 0, FALSE)

NextList ==
  \/ Tick
  \/ IssueListing
  \/ \E i \in Slots : DbUniqReply(i, TRUE)
  \/ \E i \in Slots : DbInsertReply(i, TRUE)
  \/ \E i \in Slots : DbGetReply(i, TRUE)
  \/ \E i \in Slots : DbClickReply(i, TRUE)
  \/ \E i \in Slots : DbListReply(i, TRUE)
  \/ \E i \in Slots : Retire(i)

SpecList == InitList /\ [][NextList]_vars

\* The server module has been loaded: the registration of the logger and
\* the open() of the database are in flight.  Each step of the
\* initialization may fail, the sink may answer anything, and the requests
\* that arrive are handled on a working datastore.
IssueStart ==
  \/ \E i \in Slots : IssueCreate(i, UrlA, ValInt(1), CodeAbc)
  \/ \E i \in Slots : IssueRedirect(i, CodeAbc)
  \/ \E i \in Slots : IssueStats(i, CodeAbc)
  \/ \E i \in Slots : IssueList(i)

InitStart ==
  /\ InitTables(MaxInFlight, MaxStartReqs, 0, 0, TRUE)
  /\ server = "initializing"
  /\ startupLog = "none"
  /\ database = initialize(NewDatabase)
  /\ frontendLogger = NewFrontendLogger
  /\ dashboard = NewDashboard

NextStart ==
  \/ \E ok \in BOOLEAN : RegisterReply(ok)
  \/ DbOpenReply(TRUE)
  \/ DbOpenReply(FALSE)
  \/ DbExecReply(TRUE)
  \/ DbExecReply(FALSE)
  \/ \E ok \in BOOLEAN : DbLogAuthReply(ok)
  \/ \E o \in PostReplies : DbLogPostReply(o)
  \/ \E ok \in BOOLEAN : StartupSinkAuthReply(ok)
  \/ \E o \in PostReplies : StartupSinkPostReply(o)
  \/ IssueStart
  \/ \E i \in Slots : DbUniqReply(i, TRUE)
  \/ \E i \in Slots : DbInsertReply(i, TRUE)
  \/ \E i \in Slots : DbGetReply(i, TRUE)
  \/ \E i \in Slots : DbClickReply(i, TRUE)
  \/ \E i \in Slots : DbClicksReply(i, TRUE)
  \/ \E i \in Slots : DbListReply(i, TRUE)
  \/ \E i \in Slots, ok \in BOOLEAN : SinkAuthReply(i, ok)
  \/ \E i \in Slots, o \in PostReplies : SinkPostReply(i, o)
  \/ \E i \in Slots : Retire(i)

SpecStart == InitStart /\ [][NextStart]_vars

\* Any sequence of initialize and close calls on the Database of the
\* modular server, one call at a time, each step of which may fail, while
\* the logger registers and the sink may answer anything.
InitDb ==
  /\ InitTables(MaxInFlight, 0, 0, 0, TRUE)
  /\ variant = "modular"
  /\ server = "loaded"
  /\ startupLog = "none"
  /\ database = NewDatabase
  /\ frontendLogger = NewFrontendLogger
  /\ dashboard = NewDashboard

NextDb ==
  \/ \E ok \in BOOLEAN : RegisterReply(ok)
  \/ CallInitialize
  \/ CallClose
  \/ DbOpenReply(TRUE)
  \/ DbOpenReply(FALSE)
  \/ DbExecReply(TRUE)
  \/ DbExecReply(FALSE)
  \/ DbCloseReply(TRUE)
  \/ DbCloseReply(FALSE)
  \/ \E ok \in BOOLEAN : DbLogAuthReply(ok)
  \/ \E o \in PostReplies : DbLogPostReply(o)

SpecDb == InitDb /\ [][NextDb]_vars

\* Both loggers at work against a sink that may answer anything: the
\* server registers its logger, logs its start-up and the redirects it
\* refuses, the front end initializes its logger and logs.
InitLoggers ==
  /\ InitTables(MaxInFlight, MaxLoggerReqs, 0, 0, TRUE)
  /\ server = "initializing"
  /\ startupLog = "none"
  /\ database = initialize(NewDatabase)
  /\ frontendLogger = [NewFrontendLogger EXCEPT !.logsLeft = MaxFrontLogs]
  /\ dashboard = NewDashboard

NextLoggers ==
  \/ \E ok \in BOOLEAN : RegisterReply(ok)
  \/ \E ok \in BOOLEAN : DbOpenReply(ok)
  \/ \E ok \in BOOLEAN : DbExecReply(ok)
  \/ \E ok \in BOOLEAN : DbLogAuthReply(ok)
  \/ \E o \in PostReplies : DbLogPostReply(o)
  \/ \E ok \in BOOLEAN : StartupSinkAuthReply(ok)
  \/ \E o \in PostReplies : StartupSinkPostReply(o)
  \/ \E i \in Slots : IssueRedirect(i, CodeAbc)
  \/ \E i \in Slots : DbGetReply(i, TRUE)
  \/ \E i \in Slots, ok \in BOOLEAN : SinkAuthReply(i, ok)
  \/ \E i \in Slots, o \in PostReplies : SinkPostReply(i, o)
  \/ \E i \in Slots : Retire(i)
  \/ \E ok \in BOOLEAN : FrontRegisterReply(ok)
  \/ \E ok \in BOOLEAN : FrontInitAuthReply(ok)
  \/ FrontLogCall
  \/ \E ok \in BOOLEAN : FrontLogAuthReply(ok)
  \/ \E o \in PostReplies : FrontLogPostReply(o)
  \/ \E ok \in BOOLEAN : FrontLogReauthReply(ok)

SpecLoggers == InitLoggers /\ [][NextLoggers]_vars

\* The dashboard is used in a browser while another client creates a short
\* URL: the datastore may fail and a GET of the browser may get no
\* response.  The sink has refused the registration of both loggers, so
\* the log calls of the handlers return at once and those of the front end
\* end in authenticate's error.
InitDash ==
  /\ InitTables(MaxInFlight, MaxDashReqs, 0, MaxFaults, FALSE)
  /\ server = "listening"
  /\ startupLog = "none"
  /\ database = InitializedDatabase
  /\ frontendLogger = [NewFrontendLogger EXCEPT !.init = "done",
                                                !.logsLeft = MaxDashLogs]
  /\ dashboard = NewDashboard

NextDash ==
  \/ \E i \in Slots : IssueCreate(i, UrlA, ValInt(1), CodeAbc)
  \/ \E i \in Slots : DbUniqReply(i, TRUE)
  \/ \E i \in Slots : DbInsertReply(i, TRUE)
  \/ \E i \in Slots, ok \in BOOLEAN : DbGetReply(i, ok)
  \/ \E i \in Slots, ok \in BOOLEAN : DbClicksReply(i, ok)
  \/ \E i \in Slots, ok \in BOOLEAN : DbListReply(i, ok)
  \/ \E i \in Slots :
       /\ \A k \in DOMAIN dashboard.requests : dashboard.requests[k].slot # i
       /\ Retire(i)
  \/ \E twice \in BOOLEAN : Mount(twice)
  \/ Unmount
  \/ Retry
  \/ Refresh
  \/ \E k \in DOMAIN dashboard.urls : OpenDetails(k)
  \/ CloseDetails
  \/ \E k \in DOMAIN dashboard.requests, i \in Slots : DashArrive(k, i)
  \/ \E k \in DOMAIN dashboard.requests : DashRespond(k)
  \/ \E k \in DOMAIN dashboard.requests : NetworkFail(k)
  \/ \E k \in DOMAIN dashboard.requests : AllUrlsReply(k)
  \/ \E k \in DOMAIN dashboard.requests : DetailsReply(k)

SpecDash == InitDash /\ [][NextDash]_vars

\* ---------------------------------------------------------------- claims
\* The requests whose response has just been sent.
Done == { i \in Slots : reqs[i].pc = "done" }

\* The request passes the url and the validity checks of create.
ValidInputs(r) ==
  /\ ~urlAbsent(r.url)
  /\ isValidURL(r.url)
  /\ validateValidityPeriod(r.validity) = "ok"

\* The format of a custom code as the claims state it: ^[A-Za-z0-9]{3,20}$.
MatchesFormat(c) ==
  /\ Len(c) \in 3..20
  /\ \A k \in 1..Len(c) : c[k] \in Alnum

\* The shortcodes of the 201 responses sent so far.
Served201(c) ==
  { k \in DOMAIN served : served[k].status = 201 /\ served[k].shortcode = c }

\* C1: under any interleaving of concurrent create requests the datastore
\* holds at most one short_urls row per shortcode, and no two 201 responses
\* carry the same shortcode.
C1_OneRecordPerShortcode ==
  /\ \A a, b \in DOMAIN short_urls :
       a # b => short_urls[a].shortcode # short_urls[b].shortcode
  /\ \A a, b \in DOMAIN served :
       (a # b /\ served[a].status = 201 /\ served[b].status = 201)
         => served[a].shortcode # served[b].shortcode

\* C1 witness: a create passed the uniqueness pre-check, lost the race and
\* had its insert refused by the unique constraint.
C1_Witness ==
  \E i \in Done :
    /\ reqs[i].op = "create"
    /\ reqs[i].uniqueRejected
    /\ Served201(reqs[i].finalShortcode) # {}

\* C2 (as claimed): a create of a custom code that passed the uniqueness
\* pre-check and whose insert is refused by the unique constraint is
\* answered 409.
C2_RaceLoserAnswered409 ==
  \A i \in Done :
    (/\ reqs[i].op = "create"
     /\ reqs[i].shortcode # NoCode
     /\ reqs[i].uniqueRejected) => reqs[i].status = 409

\* C3 (as claimed): a create with a well-formed custom code that is already
\* stored when the request arrives is answered 409 and stores nothing,
\* whatever url or validity it carries; one whose code is not stored
\* succeeds with 201 and stores it.
C3_DuplicateWhateverInputs ==
  \A i \in Done :
    (/\ reqs[i].op = "create"
     /\ MatchesFormat(reqs[i].shortcode)) =>
      /\ reqs[i].presentAtIssue => (reqs[i].status = 409 /\ ~reqs[i].stored)
      /\ (ValidInputs(reqs[i]) /\ ~reqs[i].sawPresent) =>
           (reqs[i].status = 201 /\ reqs[i].stored)

\* C3 (amended): a create with a valid url, a valid validity and a
\* well-formed custom code succeeds with 201 and stores the code with its
\* url when the code is not stored (at the pre-check and at the insert); a
\* create with a well-formed custom code that is already stored when the
\* request arrives stores nothing and is answered 409 when its url and
\* validity are valid, 400 when they are not.
C3_CustomCodeOnce ==
  \A i \in Done :
    (/\ reqs[i].op = "create"
     /\ MatchesFormat(reqs[i].shortcode)) =>
      /\ (ValidInputs(reqs[i]) /\ ~reqs[i].sawPresent) =>
           /\ reqs[i].status = 201
           /\ reqs[i].stored
           /\ SelectShortUrl(short_urls, reqs[i].shortcode).original_url
                = reqs[i].url
      /\ reqs[i].presentAtIssue =>
           /\ ~reqs[i].stored
           /\ reqs[i].status = IF ValidInputs(reqs[i]) THEN 409 ELSE 400

\* C3 witness: a create of an already stored custom code, carrying another
\* url than the stored one, has been answered 409.
C3_Witness ==
  \E i \in Done :
    /\ reqs[i].op = "create"
    /\ reqs[i].presentAtIssue
    /\ reqs[i].status = 409
    /\ SelectShortUrl(short_urls, reqs[i].shortcode).original_url # reqs[i].url

\* C5 (as claimed): a redirect of a shortcode that a create returned with
\* 201, handled before the expiry of the record, is answered 302 to the
\* url given at creation, never 404.
C5_RoundTrip ==
  \A i \in Done :
    (/\ reqs[i].op = "redirect"
     /\ reqs[i].presentAtIssue
     /\ Served201(reqs[i].shortcode) # {}
     /\ now < SelectShortUrl(short_urls, reqs[i].shortcode).expires_at) =>
      /\ reqs[i].status # 404
      /\ reqs[i].status = 302
      /\ \A k \in Served201(reqs[i].shortcode) :
           reqs[i].shortUrl.original_url = served[k].url


\* The 302 responses sent so far for shortcode c.
Served302(c) ==
  { k \in DOMAIN served : served[k].status = 302 /\ served[k].shortcode = c }

\* C4 (as claimed): a redirect that finds the record is refused with 410 if
\* and only if the clock is at or past expires_at when the expiry is checked,
\* and is redirected with 302 otherwise.
C4_ExpiredAtOrAfterExpiry ==
  \A i \in Done :
    (/\ reqs[i].op = "redirect"
     /\ reqs[i].shortUrl # NoRow
     /\ ~reqs[i].dbFault) =>
      /\ (reqs[i].status = 410) <=> reqs[i].dueAtCheck
      /\ ~reqs[i].dueAtCheck => reqs[i].status = 302

\* C6 (as claimed): every stored row has expires_at = created_at +
\* validity_minutes minutes.
C6_ExpiryDerivedFromCreatedAt ==
  \A k \in DOMAIN short_urls :
    short_urls[k].expires_at
      = short_urls[k].created_at + short_urls[k].validity_minutes * MsPerMinute

\* C7: each redirect answered 302 has inserted one click and a redirect
\* answered otherwise (404, 410, 500) has inserted none; for every shortcode
\* with no redirect between its click insert and its response, the number of
\* click rows equals the number of 302 responses.
C7_ClicksMatchRedirects ==
  /\ \A i \in Done :
       reqs[i].op = "redirect" =>
         ((reqs[i].status = 302) <=> reqs[i].clickInserted)
  /\ \A c \in ClockCodes :
       (\A i \in Slots :
          ~(reqs[i].shortcode = c /\ reqs[i].clickInserted /\ reqs[i].status = 0))
         => Cardinality(ClickIds(clicks, c)) = Cardinality(Served302(c))

\* C7 witness: a shortcode has been redirected with 302 and a later redirect
\* of it has just been refused as expired.
C7_Witness ==
  \E i \in Done :
    /\ reqs[i].op = "redirect"
    /\ reqs[i].status = 410
    /\ Served302(reqs[i].shortcode) # {}

\* C8 (as claimed): when the click insert fails, the redirect of an existing,
\* non-expired shortcode is still answered 302.
C8_ClickFailureStillRedirects ==
  \A i \in Done :
    (reqs[i].op = "redirect" /\ reqs[i].clickFailed) => reqs[i].status = 302

\* C9: whatever the log sink answers, no exception escapes a handler, and
\* the response is the one the handler had settled on before it logged, with
\* the datastore change that goes with it (201: one row stored, 302: one
\* click stored, anything else: nothing stored).
C9_LogFailureNeverPropagates ==
  /\ \A i \in Slots : reqs[i].pc # "unhandled"
  /\ \A i \in Done :
       /\ reqs[i].status = StatusOf(reqs[i].decided)
       /\ reqs[i].stored <=> reqs[i].status = 201
       /\ reqs[i].clickInserted <=> reqs[i].status = 302

\* C9 witness: a create whose log emission failed has been answered 201.
C9_Witness ==
  \E i \in Done :
    /\ reqs[i].op = "create"
    /\ reqs[i].logFailed
    /\ reqs[i].status = 201

\* C10 (as claimed): no handler waits for the log sink before it has sent
\* its response.
C10_ResponseDoesNotAwaitLog ==
  \A i \in Slots : reqs[i].pc \in {"auth", "post"} => reqs[i].status # 0


\* The branches in which create rejects the request.
Rejections ==
  {"missingUrl", "invalidUrl", "invalidValidity", "invalidFormat", "duplicate"}

\* C11: a create that ends in a validation failure or as a duplicate custom
\* code has stored nothing, and the step in which its handler runs leaves
\* both tables as they were.
C11_RejectedCreateStoresNothing ==
  [][\A i \in Slots :
       (reqs'[i].op = "create" /\ reqs'[i].decided \in Rejections) =>
         /\ ~reqs'[i].stored
         /\ ~reqs'[i].uniqueRejected
         /\ reqs'[i] # reqs[i] =>
              (short_urls' = short_urls /\ clicks' = clicks)]_vars

\* C11 witness: a create has been rejected as a duplicate of a stored code.
C11_Witness ==
  \E i \in Done :
    /\ reqs[i].op = "create"
    /\ reqs[i].decided = "duplicate"
    /\ reqs[i].status = 409
    /\ short_urls # << >>

\* The first check of create, in the order the claim gives, that the
\* request r fails ("none": it passes them all); `taken` says whether the
\* uniqueness check finds the custom code.
FirstFailure(r, taken) ==
  IF urlAbsent(r.url) THEN "missingUrl"
  ELSE IF ~isValidURL(r.url) THEN "invalidUrl"
  ELSE IF validateValidityPeriod(r.validity) # "ok" THEN "invalidValidity"
  ELSE IF r.shortcode # NoCode /\ ~MatchesFormat(r.shortcode) THEN "invalidFormat"
  ELSE IF r.shortcode # NoCode /\ taken THEN "duplicate"
  ELSE "none"

\* C12: create reports the first failure only, in the order missing url,
\* invalid url, invalid validity, invalid custom-code format, duplicate
\* custom code; it rejects a request in no other case.
C12_FirstFailureOnly ==
  \A i \in Done :
    reqs[i].op = "create" =>
      /\ FirstFailure(reqs[i], reqs[i].presentAtIssue) # "none" =>
           /\ reqs[i].decided = FirstFailure(reqs[i], reqs[i].presentAtIssue)
           /\ reqs[i].status = StatusOf(reqs[i].decided)
      /\ reqs[i].decided \in Rejections =>
           reqs[i].decided = FirstFailure(reqs[i], reqs[i].sawPresent)

\* C12 witness: a create with an out-of-range validity and a custom code
\* that is already stored has been answered 400 for its validity.
C12_Witness ==
  \E i \in Done :
    /\ reqs[i].op = "create"
    /\ isValidURL(reqs[i].url)
    /\ validateValidityPeriod(reqs[i].validity) # "ok"
    /\ reqs[i].presentAtIssue
    /\ reqs[i].shortcode # NoCode
    /\ reqs[i].decided = "invalidValidity"
    /\ reqs[i].status = 400


\* The validity of the request is an integer (below or from 10^21 on).
IsInteger(validity) == validity.kind \in {"int", "big"}

\* The integer validity is below 1, above 10080 (every integer from 10^21
\* on is), or within the limits.
BelowRange(validity) == validity.kind = "int" /\ validity.n < 1
AboveRange(validity) ==
  \/ validity.kind = "big"
  \/ validity.kind = "int" /\ validity.n > 10080

\* C13 (as claimed): a create with a valid url and an integer validity v
\* that is not refused for its shortcode succeeds iff 1 <= v <= 10080, and
\* then stores validity_minutes = v; v < 1 is refused as TooShort and
\* v > 10080 as TooLong with 400, a non-numeric validity as NotANumber.
C13_ValidityLimits ==
  \A i \in Done :
    (/\ reqs[i].op = "create"
     /\ isValidURL(reqs[i].url)
     /\ ~reqs[i].sawPresent) =>
      LET v == reqs[i].validity IN
      /\ IsInteger(v) =>
           ((reqs[i].status = 201) <=> (~BelowRange(v) /\ ~AboveRange(v)))
      /\ (IsInteger(v) /\ reqs[i].status = 201) =>
           (v.kind = "int" /\ reqs[i].validityMinutes = v.n)
      /\ BelowRange(v) =>
           (reqs[i].status = 400 /\ validateValidityPeriod(v) = "TooShort")
      /\ AboveRange(v) =>
           (reqs[i].status = 400 /\ validateValidityPeriod(v) = "TooLong")
      /\ v.kind = "nan" =>
           (reqs[i].status = 400 /\ validateValidityPeriod(v) = "NotANumber")


\* C14: generateUniqueShortcode makes at most maxAttempts uniqueness checks;
\* it returns the first candidate the datastore reports as unused, and it
\* returns null, which create answers with 500 and no row stored, exactly
\* when maxAttempts candidates in a row collided.
C14_GenerationBounded ==
  \A i \in Slots :
    (reqs[i].op = "create" /\ reqs[i].shortcode = NoCode) =>
      /\ reqs[i].collisions <= MaxAttempts
      /\ reqs[i].pc = "gen" =>
           (reqs[i].attempts <= MaxAttempts
              /\ reqs[i].collisions = reqs[i].attempts - 1)
      /\ reqs[i].pc = "insert" =>
           (reqs[i].collisions = reqs[i].attempts - 1
              /\ reqs[i].finalShortcode \in generateShortcode(GenLength))
      /\ reqs[i].pc = "done" =>
           /\ (reqs[i].decided = "exhausted") <=> (reqs[i].collisions = MaxAttempts)
           /\ reqs[i].decided = "exhausted" =>
                (reqs[i].status = 500 /\ ~reqs[i].stored)
           /\ reqs[i].decided \in {"exhausted", "created", "fault"}

\* C14 witness: a create without a custom code has been answered 500 after
\* maxAttempts collisions.
C14_Witness ==
  \E i \in Done :
    /\ reqs[i].op = "create"
    /\ reqs[i].shortcode = NoCode
    /\ reqs[i].collisions = MaxAttempts
    /\ reqs[i].status = 500
    /\ reqs[i].decided = "exhausted"

\* C15: the shortcode of a 201 answer to a create without a custom code has
\* six characters of [A-Za-z0-9] and is the shortcode of no other 201 answer
\* sent so far.
C15_GeneratedCodeFresh ==
  \A i \in Done :
    (/\ reqs[i].op = "create"
     /\ reqs[i].shortcode = NoCode
     /\ reqs[i].status = 201) =>
      /\ Len(reqs[i].finalShortcode) = 6
      /\ \A k \in 1..Len(reqs[i].finalShortcode) :
           reqs[i].finalShortcode[k] \in Alnum
      /\ Cardinality(Served201(reqs[i].finalShortcode)) = 1

\* C15 witness: a create without a custom code whose first candidate
\* collided has been answered 201 after other creates were.
C15_Witness ==
  \E i \in Done :
    /\ reqs[i].op = "create"
    /\ reqs[i].shortcode = NoCode
    /\ reqs[i].status = 201
    /\ reqs[i].collisions >= 1
    /\ Len(served) >= 2


\* C16: the statistics of an unknown code are answered 404; the statistics
\* of a stored code, expired or not, are answered with totalClicks equal to
\* the number of click rows of the code, to the length of clickDetails and
\* to the number of redirects of the code answered 302.
C16_StatsCountClicks ==
  \A i \in Done :
    (reqs[i].op = "stats" /\ ~reqs[i].dbFault) =>
      /\ (reqs[i].status = 404) <=> UniqueOk(short_urls, reqs[i].shortcode)
      /\ ~UniqueOk(short_urls, reqs[i].shortcode) =>
           /\ reqs[i].status = 200
           /\ reqs[i].totalClicks = Cardinality(ClickIds(clicks, reqs[i].shortcode))
           /\ reqs[i].totalClicks = Len(reqs[i].clickDetails)
           /\ reqs[i].totalClicks = Cardinality(Served302(reqs[i].shortcode))

\* C16 witness: the statistics of an expired code that was redirected twice
\* report two clicks.
C16_Witness ==
  \E i \in Done :
    /\ reqs[i].op = "stats"
    /\ reqs[i].status = 200
    /\ reqs[i].dueAtCheck
    /\ reqs[i].totalClicks = 2
    /\ Cardinality(Served302(reqs[i].shortcode)) = 2


\* C17 (as claimed): the clickDetails of a statistics answer are in strictly
\* descending order of clicked_at.
C17_ClickDetailsStrictlyDescending ==
  \A i \in Done :
    (reqs[i].op = "stats" /\ reqs[i].status = 200) =>
      \A k \in 1..(Len(reqs[i].clickDetails) - 1) :
        reqs[i].clickDetails[k] > reqs[i].clickDetails[k + 1]

\* Two statistics answers for one shortcode in the sequence sv of answers,
\* with no 302 of that shortcode between them, are the same.
SameStatsWithoutClick(sv) ==
  \A a, b \in DOMAIN sv :
    (/\ a < b
     /\ sv[a].status = 200
     /\ sv[b].status = 200
     /\ sv[a].shortcode = sv[b].shortcode
     /\ \A k \in a..b :
          ~(sv[k].status = 302 /\ sv[k].shortcode = sv[a].shortcode)) =>
      /\ sv[a].totalClicks = sv[b].totalClicks
      /\ sv[a].clickDetails = sv[b].clickDetails

\* C18: a step of the statistics or of the listing handler leaves both
\* tables unchanged, and two statistics answers for a shortcode with no
\* redirect of it between them carry the same totalClicks and clickDetails,
\* whatever creates and redirects of other shortcodes interleave.
C18_ReadsIdempotent ==
  [][/\ \A i \in Slots :
          (reqs'[i] # reqs[i] /\ reqs'[i].op \in {"stats", "list"}) =>
            (short_urls' = short_urls /\ clicks' = clicks)
     /\ SameStatsWithoutClick(served')]_vars

\* C18 witness: two statistics answers for a shortcode report the same
\* click, with the creation or a redirect of another shortcode between them.
C18_Witness ==
  \E a, b, k \in DOMAIN served :
    /\ a < k /\ k < b
    /\ served[a].status = 200 /\ served[b].status = 200
    /\ served[a].shortcode = served[b].shortcode
    /\ served[a].totalClicks = 1 /\ served[b].totalClicks = 1
    /\ served[k].status \in {201, 302}
    /\ served[k].shortcode # served[a].shortcode

\* C19: the listing has exactly one entry for every stored shortcode, with
\* or without clicks, expired or not, and the total_clicks of an entry is
\* the number of click rows of its shortcode.
C19_ListingComplete ==
  \A i \in Done :
    (reqs[i].op = "list" /\ reqs[i].status = 200) =>
      LET ls == reqs[i].listing IN
      /\ Len(ls) = Len(short_urls)
      /\ \A k \in DOMAIN short_urls :
           Cardinality({ j \in DOMAIN ls :
                           ls[j].shortcode = short_urls[k].shortcode }) = 1
      /\ \A j \in DOMAIN ls :
           ls[j].total_clicks = Cardinality(ClickIds(clicks, ls[j].shortcode))

\* C19 witness: a listing shows an expired shortcode with a click next to a
\* shortcode without clicks.
C19_Witness ==
  \E i \in Done :
    /\ reqs[i].op = "list"
    /\ reqs[i].status = 200
    /\ \E j, k \in DOMAIN reqs[i].listing :
         /\ reqs[i].listing[j].total_clicks = 0
         /\ reqs[i].listing[k].total_clicks >= 1
         /\ reqs[i].listing[k].isExpired

\* C20: a stored row is the same in every later state and is never deleted,
\* and the statistics of a stored shortcode requested after its expiry are
\* answered with the row and isExpired true, not with 404.
C20_WriteOnce ==
  [][/\ \A k \in DOMAIN short_urls :
          k \in DOMAIN short_urls' /\ short_urls'[k] = short_urls[k]
     /\ \A i \in Slots :
          (/\ reqs'[i].pc = "done"
           /\ reqs'[i].op = "stats"
           /\ ~reqs'[i].dbFault
           /\ ~UniqueOk(short_urls', reqs'[i].shortcode)) =>
            /\ reqs'[i].status = 200
            /\ reqs'[i].shortUrl = SelectShortUrl(short_urls', reqs'[i].shortcode)
            /\ now' > reqs'[i].shortUrl.expires_at => reqs'[i].isExpired]_vars

\* C20 witness: the statistics of a shortcode have been answered after its
\* expiry, with the row as it was stored.
C20_Witness ==
  \E i \in Done :
    /\ reqs[i].op = "stats"
    /\ reqs[i].status = 200
    /\ reqs[i].isExpired
    /\ now > reqs[i].shortUrl.expires_at
    /\ reqs[i].shortUrl = SelectShortUrl(short_urls, reqs[i].shortcode)


\* C21: the expiredAt of a 410 answer to a redirect equals the expiry of the
\* 201 answer of the create that produced the shortcode, and the expiresAt of
\* the statistics of the shortcode equals it too.
C21_ExpiryReportedConsistently ==
  /\ \A i \in Done :
       (reqs[i].op = "redirect" /\ reqs[i].status = 410) =>
         \A k \in Served201(reqs[i].shortcode) :
           reqs[i].expiredAt = served[k].expiry
  /\ \A a, b \in DOMAIN served :
       (/\ served[a].status = 201
        /\ served[b].status = 200
        /\ served[a].shortcode = served[b].shortcode) =>
         served[b].expiry = served[a].expiry

\* C21 witness: a redirect has been answered 410 for a shortcode whose
\* creation and whose statistics have been answered.
C21_Witness ==
  \E i \in Done :
    /\ reqs[i].op = "redirect"
    /\ reqs[i].status = 410
    /\ Served201(reqs[i].shortcode) # {}
    /\ \E b \in DOMAIN served :
         served[b].status = 200 /\ served[b].shortcode = reqs[i].shortcode


\* C22 (as claimed): isShortcodeUnique answers false only when the datastore
\* holds the code, even if the lookup fails, so a create whose custom code is
\* not stored is never answered 409.
C22_UnusedCodeNeverDuplicate ==
  \A i \in Done :
    (/\ reqs[i].op = "create"
     /\ reqs[i].shortcode # NoCode
     /\ reqs[i].status = 409) => ~UniqueOk(short_urls, reqs[i].shortcode)


\* C23: a create runs the insert into short_urls at most once; when the
\* insert fails (the datastore rejects the call, or the unique constraint
\* refuses a custom or a generated code) the create generates no other code,
\* leaves both tables unchanged and answers 500.
C23_InsertAttemptedOnce ==
  [][\A i \in Slots :
       reqs'[i].op = "create" =>
         /\ reqs'[i].inserts <= 1
         /\ (reqs'[i].inserts = 1 /\ ~reqs'[i].stored) =>
              /\ reqs'[i].pc \notin {"uniq", "gen", "insert"}
              /\ reqs'[i].decided = "fault"
              /\ reqs'[i].pc = "done" => reqs'[i].status = 500
              /\ reqs'[i] # reqs[i] =>
                   (short_urls' = short_urls /\ clicks' = clicks)]_vars

\* C23 witness: the insert of a generated code has been refused by the
\* unique constraint and the create has been answered 500.
C23_Witness ==
  \E i \in Done :
    /\ reqs[i].op = "create"
    /\ reqs[i].shortcode = NoCode
    /\ reqs[i].uniqueRejected
    /\ reqs[i].inserts = 1
    /\ reqs[i].status = 500


\* C24 (as claimed): one log call re-authenticates and sends its log again
\* at most once, whatever the sink answers.
C24_SingleRetry ==
  \A i \in Slots : reqs[i].retries <= 1


\* C25 (as claimed): no stored click has a clicked_at later than the
\* expires_at of the row of its shortcode.
C25_NoClickAfterExpiry ==
  \A k \in DOMAIN clicks :
    clicks[k].clicked_at
      <= SelectShortUrl(short_urls, clicks[k].shortcode).expires_at

\* C26: the server handles requests only after the database has been
\* initialized successfully: while a create, redirect, statistics or list
\* request is being handled, getDb returns a handle and the one lifecycle
\* call that has completed is a successful initialize; the server listens
\* only then, and after a failed initialize it never listens.
C26_ListenOnlyAfterInitialize ==
  /\ \A i \in Slots :
       reqs[i].pc # "idle" =>
         /\ getDb(database) = "handle"
         /\ database.calls = << "initialized" >>
  /\ server = "listening" => database.calls = << "initialized" >>
  /\ (\E k \in DOMAIN database.calls : database.calls[k] = "failed") =>
       /\ server # "listening"
       /\ reqsLeft = MaxStartReqs

\* The server listens after a successful initialize made with a registered
\* logger, and a handler is waiting for the datastore.
C26_Witness ==
  /\ server = "listening"
  /\ isRegistered
  /\ \E i \in Slots : reqs[i].pc = "get"

\* C27: when no lifecycle call is running, getDb returns a handle exactly
\* when the call that completed last is a successful initialize.
C27_GetDbIffInitialized ==
  database.call = "none" =>
    (getDb(database) = "handle" <=>
       /\ database.calls # << >>
       /\ database.calls[Len(database.calls)] = "initialized")

\* C28 (as claimed): in both server variants GET /health is answered by
\* the health handler with 200, and the '/:shortcode' handler never looks
\* up the shortcode 'health'.
C28_HealthNeverLookedUp ==
  \A i \in Slots :
    (reqs[i].op = "redirect" /\ reqs[i].shortcode = CodeHealth) =>
      /\ reqs[i].pc # "get"
      /\ reqs[i].pc = "done" =>
           (reqs[i].decided = "health" /\ reqs[i].status = 200)

\* C29: in every state of the CustomLogger and of the FrontendLogger,
\* isAuthenticated implies isRegistered and a token; and no step of either
\* logger turns isRegistered from true to false.
C29_AuthenticatedImpliesRegistered ==
  /\ [](/\ isAuthenticated => (isRegistered /\ token)
        /\ frontendLogger.isAuthenticated =>
             (frontendLogger.isRegistered /\ frontendLogger.token))
  /\ [][/\ isRegistered => isRegistered'
        /\ frontendLogger.isRegistered => frontendLogger'.isRegistered]_vars

\* Both loggers have lost their authentication after a 401 and are asking
\* for a new token while registered.
C29_Witness ==
  /\ isRegistered /\ token /\ ~isAuthenticated
  /\ frontendLogger.log.reauth > 0
  /\ frontendLogger.token /\ ~frontendLogger.isAuthenticated

\* C30 (as claimed): when fetchAllUrls has just completed successfully,
\* the dashboard shows the table and not the error alert, whatever fetches
\* failed before.
C30_LoadedShowsTable ==
  dashboard.last = "loaded" => View(dashboard) = "table"

====
